---------------------------- MODULE Spec2Model ----------------------------
(***************************************************************************)
(* Model of the episodic data store of vla_synthesis                       *)
(* (src/vla_synthesis/src/recorder.py, class HDF5Recorder) and of its      *)
(* trajectory planner (src/vla_synthesis/src/planner.py, SimplePlanner),   *)
(* of its task generator (src/vla_synthesis/src/task_generator.py,         *)
(* TaskGenerator) and of the generation loop that drives them              *)
(* (src/vla_synthesis/main_generate.py, main).                             *)
(*                                                                         *)
(* The HDF5 file is a mapping from episode indices to groups; a group      *)
(* holds five datasets and an attribute set.  A dataset is its shape       *)
(* (dset.shape, first dimension N) and its N rows, each row the flattened  *)
(* (row-major) record.  An array value handed to save_step is its shape    *)
(* and its flattened data.  Element values are taken inside the element    *)
(* type of their stream (uint8 pixels, small float32-exact numbers), so    *)
(* the dtype conversion of a write does not change them.                   *)
(***************************************************************************)
EXTENDS Integers, Sequences, FiniteSets, TLC

VARIABLES file, last,
          pc, robot, target, home_q, keyframes, ik_log, warned, result, prev,
          icall,
          gen, scene, ret,
          mpc, task_gen, control, cur_ep, text_instr, target_obj,
          actions_trajectory, step_count, calls, printed,
          manager, gscene, scall

\* the variables of the store, those of a plan_grasp call (with the call
\* before it, when its caller kept that one's result), the last call of
\* interpolate, and the task generator with the scene it spawns into and
\* the outcome of the last call on it
svars == <<file, last>>
pvars == <<pc, robot, target, home_q, keyframes, ik_log, warned, result, prev>>
ivars == <<icall>>
tvars == <<gen, scene, ret>>
\* the generation loop: its position, the kind of task generator and the
\* control method of scene.robot, its locals, the calls it made on its
\* collaborators in the current episode and the last message it printed
mvars == <<mpc, task_gen, control, cur_ep, text_instr, target_obj,
           actions_trajectory, step_count, calls, printed>>
\* the scene manager, the cameras and lights added to its genesis scene,
\* and the last call on it
cvars == <<manager, gscene, scall>>
vars == <<svars, pvars, ivars, tvars, mvars, cvars>>

\* what a call on the store, on the planner, of interpolate and on the task
\* generator leaves alone
not_store == <<pvars, ivars, tvars, mvars, cvars>>
not_planner == <<svars, ivars, tvars, mvars, cvars>>
not_interp == <<svars, pvars, tvars, mvars, cvars>>
not_task == <<svars, pvars, ivars, mvars, cvars>>
\* the loop uses the store and the task generator
not_main == <<pvars, ivars, cvars>>
not_scene == <<svars, pvars, ivars, tvars, mvars>>

(***************************************************************************)
(* Bounds of the model.                                                    *)
(***************************************************************************)
\* save_step is not called once the file holds MaxRows observation rows
MaxRows == 3

\* the episode indices the callers use
Episodes == {0, 1}

(***************************************************************************)
(* Array values and index arithmetic.                                      *)
(***************************************************************************)
Arr(shape, data) == [shape |-> shape, data |-> data]

\* state=None
None == [none |-> TRUE]

Min(a, b) == IF a < b THEN a ELSE b

RECURSIVE Prod(_)
Prod(s) == IF s = <<>> THEN 1 ELSE Head(s) * Prod(Tail(s))

RECURSIVE SumTo(_, _)
SumTo(f, n) == IF n = 0 THEN 0 ELSE f[n] + SumTo(f, n - 1)

\* number of elements one step along axis j of shape s spans (row-major)
Stride(s, j) == Prod(SubSeq(s, j + 1, Len(s)))

\* 0-based index along axis j of the element with 0-based flat index k
Index(k, s, j) == (k \div Stride(s, j)) % s[j]

(***************************************************************************)
(* h5py datasets as recorder.py uses them.                                 *)
(***************************************************************************)
\* grp.create_dataset(name, shape=(0, ..., 0), maxshape=(None, ...)): an
\* empty resizable dataset of the given rank
create_dataset(rank) == [shape |-> [i \in 1..rank |-> 0], rows |-> <<>>]

\* fill value of the elements a resize adds (no fillvalue is given)
FillValue(name) == IF name = "instruction" THEN "" ELSE 0

\* whether the element with flat index k of a record of shape inner lies
\* inside a record of shape old
Inside(k, inner, old) == \A j \in 1..Len(inner) : Index(k, inner, j) < old[j]

\* flat index, in a record of shape old, of the element that has flat
\* index k in a record of shape inner
Reindex(k, inner, old) ==
    SumTo([j \in 1..Len(inner) |-> Index(k, inner, j) * Stride(old, j)],
          Len(inner))

\* dset.resize(newShape), newShape of the dataset's rank: elements inside
\* both extents keep their value (a record whose shape does not change is
\* kept as it is), new elements hold the fill value
Resize(dset, newShape, fill) ==
    LET inner == Tail(newShape)
        old   == Tail(dset.shape)
    IN  [shape |-> newShape,
         rows  |-> [i \in 1..newShape[1] |->
                     IF i <= Len(dset.rows) /\ inner = old
                     THEN dset.rows[i]
                     ELSE [k \in 1..Prod(inner) |->
                             IF i <= Len(dset.rows)
                                /\ Inside(k - 1, inner, old)
                             THEN dset.rows[i][Reindex(k - 1, inner, old) + 1]
                             ELSE fill]]]

\* h5py's broadcasting rule for dset[i] = value: the value's dimensions,
\* taken from the last, must each be 1 or equal the record's dimension;
\* dimensions the value has in excess must be 1
CanBroadcast(vshape, inner) ==
    /\ \A i \in 1..Min(Len(vshape), Len(inner)) :
          LET t == vshape[Len(vshape) - i + 1]
          IN  t = 1 \/ t = inner[Len(inner) - i + 1]
    /\ \A i \in 1..(Len(vshape) - Len(inner)) : vshape[i] <= 1

\* flat index in the value of the element written at flat index k of the
\* record: a dimension of size 1 is repeated along its axis
SourceIndex(k, inner, vshape) ==
    SumTo([a \in 1..Len(vshape) |->
             LET j == a + Len(inner) - Len(vshape)
             IN  IF j < 1 \/ vshape[a] = 1 THEN 0
                 ELSE Index(k, inner, j) * Stride(vshape, a)],
          Len(vshape))

\* dset[i] = value for a value that broadcasts to the record shape
SetItem(dset, i, value) ==
    LET inner == Tail(dset.shape)
    IN  [dset EXCEPT !.rows[i] =
            [k \in 1..Prod(inner) |->
                value.data[SourceIndex(k - 1, inner, value.shape) + 1]]]

\* whether the record dimensions of a dataset are still unset (size 0)
is_uninitialized(dset) ==
    /\ Len(dset.shape) > 1
    /\ \E i \in 2..Len(dset.shape) : dset.shape[i] = 0

\* append with the increment of new_shape[0] left out
append_no_grow(name, dset, data) ==
    IF is_uninitialized(dset)
    THEN LET target_shape == <<1>> \o data.shape
         IN  IF Len(target_shape) # Len(dset.shape)
             THEN [dset |-> dset, raised |-> TRUE]
             ELSE [dset   |-> SetItem(Resize(dset, target_shape,
                                             FillValue(name)), 1, data),
                   raised |-> FALSE]
    ELSE IF CanBroadcast(data.shape, Tail(dset.shape))
         THEN [dset |-> SetItem(dset, dset.shape[1], data), raised |-> FALSE]
         ELSE [dset |-> dset, raised |-> TRUE]

\* append taking the first-write branch whenever the record shape differs
\* from the data's shape
append_adapt(name, dset, data) ==
    IF is_uninitialized(dset) \/ Tail(dset.shape) # data.shape
    THEN LET target_shape == <<1>> \o data.shape
         IN  IF Len(target_shape) # Len(dset.shape)
             THEN [dset |-> dset, raised |-> TRUE]
             ELSE [dset   |-> SetItem(Resize(dset, target_shape,
                                             FillValue(name)), 1, data),
                   raised |-> FALSE]
    ELSE LET new_shape == [dset.shape EXCEPT ![1] = @ + 1]
             grown     == Resize(dset, new_shape, FillValue(name))
         IN  [dset |-> SetItem(grown, new_shape[1], data), raised |-> FALSE]

\* the helper append(name, data) of save_step on dataset dset: the dataset
\* it leaves behind and whether it raised
append(name, dset, data) ==
    IF is_uninitialized(dset)
    THEN LET target_shape == <<1>> \o data.shape
         IN  IF Len(target_shape) # Len(dset.shape)
             THEN [dset |-> dset, raised |-> TRUE]
             ELSE [dset   |-> SetItem(Resize(dset, target_shape,
                                             FillValue(name)), 1, data),
                   raised |-> FALSE]
    ELSE LET new_shape == [dset.shape EXCEPT ![1] = @ + 1]
             grown     == Resize(dset, new_shape, FillValue(name))
         IN  IF CanBroadcast(data.shape, Tail(new_shape))
             THEN [dset   |-> SetItem(grown, new_shape[1], data),
                   raised |-> FALSE]
             ELSE [dset |-> grown, raised |-> TRUE]

(***************************************************************************)
(* HDF5Recorder.create_episode_group                                       *)
(***************************************************************************)
\* the group create_episode_group leaves behind: five empty datasets and
\* no attributes
NewGroup ==
    [dsets |-> [observation |-> create_dataset(4),
                action      |-> create_dataset(2),
                reward      |-> create_dataset(1),
                instruction |-> create_dataset(1),
                state       |-> create_dataset(2)],
     attrs |-> {}]

\* create_episode_group with the deletion of the existing group left out
\* (the group is opened when it exists)
CreateGroup_keep(f, episode_idx) ==
    [e \in DOMAIN f \cup {episode_idx} |->
        IF e = episode_idx /\ e \notin DOMAIN f THEN NewGroup ELSE f[e]]

\* create_episode_group creating a sixth dataset in the group
CreateGroup_extra(f, episode_idx) ==
    [e \in DOMAIN f \cup {episode_idx} |->
        IF e = episode_idx
        THEN [NewGroup EXCEPT !.dsets =
                 [n \in DOMAIN NewGroup.dsets \cup {"depth"} |->
                     IF n = "depth" THEN create_dataset(3)
                     ELSE NewGroup.dsets[n]]]
        ELSE f[e]]

\* the file after create_episode_group(episode_idx)
CreateGroup(f, episode_idx) ==
    [e \in DOMAIN f \cup {episode_idx} |->
        IF e = episode_idx THEN NewGroup ELSE f[e]]

\* what `del self.file[group_name]` discards: nothing, or the group's
\* observation rows and attributes
Discarded(f, episode_idx) ==
    IF episode_idx \in DOMAIN f
    THEN [rows  |-> f[episode_idx].dsets.observation.shape[1],
          attrs |-> f[episode_idx].attrs]
    ELSE None

create_episode_group(episode_idx) ==
    /\ file' = CreateGroup(file, episode_idx)
    /\ last' = [op |-> "create_episode_group", ep |-> episode_idx,
                replaced |-> Discarded(file, episode_idx),
                outcome |-> "ok"]
    /\ UNCHANGED not_store

(***************************************************************************)
(* HDF5Recorder.save_step                                                  *)
(***************************************************************************)
Zeros(n) == [k \in 1..n |-> 0]

\* the else branch of save_step with the test of the state dimension left out
pad_state_always(dset, observation) ==
    IF dset.shape[1] < observation.shape[1]
    THEN LET new_shape == [dset.shape EXCEPT ![1] = @ + 1]
         IN  SetItem(Resize(dset, new_shape, FillValue("state")),
                     new_shape[1],
                     Arr(<<dset.shape[2]>>, Zeros(dset.shape[2])))
    ELSE dset

\* the else branch of save_step (state is None): one row of zeros when the
\* state dataset is shorter than the observations and has its dimension
pad_state(dset, observation) ==
    IF dset.shape[1] < observation.shape[1] /\ dset.shape[2] > 0
    THEN LET new_shape == [dset.shape EXCEPT ![1] = @ + 1]
         IN  SetItem(Resize(dset, new_shape, FillValue("state")),
                     new_shape[1],
                     Arr(<<dset.shape[2]>>, Zeros(dset.shape[2])))
    ELSE dset

\* save_step padding the state stream to the length of the observations
\* before it appends a supplied state
SaveStepGroup_backfill(grp, step) ==
    LET d  == grp.dsets
        o  == append("observation", d.observation, step.observation)
        a  == append("action", d.action, step.action)
        r  == append("reward", d.reward, Arr(<<>>, <<step.reward>>))
        i  == append("instruction", d.instruction,
                     Arr(<<>>, <<step.instruction>>))
        s  == append("state", pad_state(d.state, o.dset), step.state)
        d1 == [d  EXCEPT !.observation = o.dset]
        d2 == [d1 EXCEPT !.action = a.dset]
        d3 == [d2 EXCEPT !.reward = r.dset]
        d4 == [d3 EXCEPT !.instruction = i.dset]
        out(dsets, raised) ==
            [grp |-> [grp EXCEPT !.dsets = dsets], raised |-> raised]
    IN  IF o.raised THEN out(d1, TRUE)
        ELSE IF a.raised THEN out(d2, TRUE)
        ELSE IF r.raised THEN out(d3, TRUE)
        ELSE IF i.raised THEN out(d4, TRUE)
        ELSE IF step.state # None
             THEN out([d4 EXCEPT !.state = s.dset], s.raised)
             ELSE out([d4 EXCEPT !.state = pad_state(d.state, o.dset)],
                      FALSE)

\* the body of save_step on the group grp: the appends run in the order
\* observation, action, reward, instruction, state, and the first one that
\* raises ends the call, the datasets written so far staying as they are
SaveStepGroup(grp, step) ==
    LET d  == grp.dsets
        o  == append("observation", d.observation, step.observation)
        a  == append("action", d.action, step.action)
        r  == append("reward", d.reward, Arr(<<>>, <<step.reward>>))
        i  == append("instruction", d.instruction,
                     Arr(<<>>, <<step.instruction>>))
        s  == append("state", d.state, step.state)
        d1 == [d  EXCEPT !.observation = o.dset]
        d2 == [d1 EXCEPT !.action = a.dset]
        d3 == [d2 EXCEPT !.reward = r.dset]
        d4 == [d3 EXCEPT !.instruction = i.dset]
        out(dsets, raised) ==
            [grp |-> [grp EXCEPT !.dsets = dsets], raised |-> raised]
    IN  IF o.raised THEN out(d1, TRUE)
        ELSE IF a.raised THEN out(d2, TRUE)
        ELSE IF r.raised THEN out(d3, TRUE)
        ELSE IF i.raised THEN out(d4, TRUE)
        ELSE IF step.state # None
             THEN out([d4 EXCEPT !.state = s.dset], s.raised)
             ELSE out([d4 EXCEPT !.state = pad_state(d.state, o.dset)],
                      FALSE)

\* number of observation rows the groups eps of file f hold
RECURSIVE RowsOf(_, _)
RowsOf(f, eps) ==
    IF eps = {} THEN 0
    ELSE LET e == CHOOSE x \in eps : TRUE
         IN  f[e].dsets.observation.shape[1] + RowsOf(f, eps \ {e})

TotalRows(f) == RowsOf(f, DOMAIN f)

\* save_step writing through a group handle of episode 0 whatever the index
save_step_group0(episode_idx, step) ==
    /\ TotalRows(file) < MaxRows
    /\ LET opened == IF 0 \notin DOMAIN file
                     THEN CreateGroup(file, 0) ELSE file
           res    == SaveStepGroup(opened[0], step)
       IN  /\ file' = [opened EXCEPT ![0] = res.grp]
           /\ last' = [op |-> "save_step", ep |-> episode_idx,
                       step |-> step,
                       created |-> episode_idx \notin DOMAIN file,
                       outcome |-> IF res.raised THEN "TypeError" ELSE "ok"]
    /\ UNCHANGED not_store

\* save_step creating the group on every call
save_step_recreate(episode_idx, step) ==
    /\ TotalRows(file) < MaxRows
    /\ LET opened == CreateGroup(file, episode_idx)
           res    == SaveStepGroup(opened[episode_idx], step)
       IN  /\ file' = [opened EXCEPT ![episode_idx] = res.grp]
           /\ last' = [op |-> "save_step", ep |-> episode_idx,
                       step |-> step,
                       created |-> episode_idx \notin DOMAIN file,
                       outcome |-> IF res.raised THEN "TypeError" ELSE "ok"]
    /\ UNCHANGED not_store

save_step(episode_idx, step) ==
    /\ TotalRows(file) < MaxRows
    /\ LET opened == IF episode_idx \notin DOMAIN file
                     THEN CreateGroup(file, episode_idx) ELSE file
           res    == SaveStepGroup(opened[episode_idx], step)
       IN  /\ file' = [opened EXCEPT ![episode_idx] = res.grp]
           /\ last' = [op |-> "save_step", ep |-> episode_idx,
                       step |-> step,
                       created |-> episode_idx \notin DOMAIN file,
                       outcome |-> IF res.raised THEN "TypeError" ELSE "ok"]
    /\ UNCHANGED not_store

(***************************************************************************)
(* Other calls on the recorder.                                            *)
(***************************************************************************)
\* recorder.file['episode_0'].attrs['foo'] = 'bar', the write the test of
\* overwriting makes on the existing group episode_0
set_attr ==
    /\ 0 \in DOMAIN file
    /\ file' = [file EXCEPT ![0].attrs = @ \cup {<<"foo", "bar">>}]
    /\ last' = [op |-> "set_attr", ep |-> 0, outcome |-> "ok"]
    /\ UNCHANGED not_store

\* recorder.close(): HDF5Recorder defines no close method and no
\* __getattr__, so the attribute lookup raises and nothing is released
close ==
    /\ file' = file
    /\ last' = [op |-> "close", outcome |-> "AttributeError"]
    /\ UNCHANGED not_store

(***************************************************************************)
(* The values the callers hand to save_step.                               *)
(***************************************************************************)
\* images H x W x 3 of uint8
obsA     == Arr(<<1, 1, 3>>, <<1, 2, 3>>)
obsB     == Arr(<<1, 1, 3>>, <<4, 5, 6>>)
obsTall  == Arr(<<2, 1, 3>>, <<7, 7, 7, 8, 8, 8>>)
\* joint vectors
actA      == Arr(<<2>>, <<1, 2>>)
actB      == Arr(<<2>>, <<3, 4>>)
actOne    == Arr(<<1>>, <<9>>)
actLong   == Arr(<<3>>, <<5, 6, 7>>)
actGrid   == Arr(<<2, 2>>, <<5, 6, 7, 8>>)
\* state vectors
stA     == Arr(<<3>>, <<1, 2, 3>>)
stShort == Arr(<<2>>, <<4, 5>>)

Step(o, a, i, r, s) ==
    [observation |-> o, action |-> a, instruction |-> i, reward |-> r,
     state |-> s]

Steps ==
    { Step(obsA, actA, "pick", 1, None),
      Step(obsB, actB, "place", 2, stA),
      Step(obsTall, actLong, "pick", 1, None),
      Step(obsA, actOne, "pick", 1, None),
      Step(obsA, actGrid, "pick", 1, None),
      Step(obsA, actA, "pick", 1, stShort) }

(***************************************************************************)
(* Model of the trajectory planner (src/vla_synthesis/src/planner.py,      *)
(* class SimplePlanner).                                                   *)
(*                                                                         *)
(* Joint values are binary floating-point numbers: a value is m * 2^e with *)
(* a significand m of Precision bits, and every arithmetic operation       *)
(* rounds its exact result to the nearest such number, ties to even, as    *)
(* IEEE 754 does for the float64 of numpy (53 bits there).  Zero is        *)
(* [m |-> 0, e |-> 0]; every other number is normalised, so two numbers    *)
(* are equal exactly when their records are.  Overflow, underflow and NaN  *)
(* are out of the range of the joint values used.                          *)
(***************************************************************************)
Precision == 10

RECURSIVE Pow2(_)
Pow2(n) == IF n = 0 THEN 1 ELSE 2 * Pow2(n - 1)

Abs(x) == IF x < 0 THEN -x ELSE x

\* the number of bits of the natural number n
RECURSIVE Bits(_)
Bits(n) == IF n = 0 THEN 0 ELSE 1 + Bits(n \div 2)

FZero == [m |-> 0, e |-> 0]

\* the exact value n * 2^e rounded to Precision bits, ties to even
Round(n, e) ==
    IF n = 0 THEN FZero
    ELSE LET a == Abs(n)
             s == IF n < 0 THEN -1 ELSE 1
             k == Bits(a) - Precision
         IN  IF k <= 0
             THEN [m |-> s * a * Pow2(-k), e |-> e + k]
             ELSE LET q    == a \div Pow2(k)
                      r    == a % Pow2(k)
                      half == Pow2(k - 1)
                      up   == r > half \/ (r = half /\ q % 2 = 1)
                      m    == IF up THEN q + 1 ELSE q
                  IN  IF m = Pow2(Precision)
                      THEN [m |-> s * Pow2(Precision - 1), e |-> e + k + 1]
                      ELSE [m |-> s * m, e |-> e + k]

\* the float of an integer
FromInt(i) == Round(i, 0)

\* x * y
FMul(x, y) == Round(x.m * y.m, x.e + y.e)

\* x + y: the operands are aligned on the smaller exponent; an operand below
\* a quarter of the other's last place does not change the sum
FAdd(x, y) ==
    IF x.m = 0 THEN y
    ELSE IF y.m = 0 THEN x
    ELSE LET hi == IF x.e >= y.e THEN x ELSE y
             lo == IF x.e >= y.e THEN y ELSE x
             d  == hi.e - lo.e
         IN  IF d > Precision + 1 THEN hi
             ELSE Round(hi.m * Pow2(d) + lo.m, lo.e)

\* x - y
FSub(x, y) == FAdd(x, [y EXCEPT !.m = -@])

\* i / n for integers i >= 0 and n > 0 (Python's true division, and the
\* value of a decimal literal i/n): the quotient is taken with a sticky bit
\* and rounded once
FDiv(i, n) ==
    IF i = 0 THEN FZero
    ELSE LET scaled == i * Pow2(Precision + 8)
             sticky == IF scaled % n = 0 THEN 0 ELSE 1
         IN  Round(2 * (scaled \div n) + sticky, -(Precision + 9))

\* x < y
FLess(x, y) == FSub(x, y).m < 0

\* np.zeros(n) and np.ones(n)
np_zeros(n) == [c \in 1..n |-> FZero]
np_ones(n) == [c \in 1..n |-> FromInt(1)]

\* a ValueError of numpy (operands could not be broadcast together)
ValueError == [raised |-> "ValueError"]

\* interpolate with t = i / steps, which stops short of end_q
interpolate_short(start_q, end_q, steps) ==
    IF /\ Len(start_q) # Len(end_q)
       /\ Len(start_q) # 1
       /\ Len(end_q) # 1
       /\ steps > 0
    THEN ValueError
    ELSE LET n == IF Len(start_q) = 1 THEN Len(end_q) ELSE Len(start_q)
             at(q, c) == IF Len(q) = 1 THEN q[1] ELSE q[c]
         IN  [i \in 1..steps |->
                LET t == FDiv(i - 1, steps)
                    u == FSub(FromInt(1), t)
                IN  [c \in 1..n |->
                       FAdd(FMul(u, at(start_q, c)), FMul(t, at(end_q, c)))]]

\* interpolate with t = 1 for a single step
interpolate_end(start_q, end_q, steps) ==
    IF /\ Len(start_q) # Len(end_q)
       /\ Len(start_q) # 1
       /\ Len(end_q) # 1
       /\ steps > 0
    THEN ValueError
    ELSE LET n == IF Len(start_q) = 1 THEN Len(end_q) ELSE Len(start_q)
             at(q, c) == IF Len(q) = 1 THEN q[1] ELSE q[c]
         IN  [i \in 1..steps |->
                LET t == IF steps > 1 THEN FDiv(i - 1, steps - 1)
                         ELSE FromInt(1)
                    u == FSub(FromInt(1), t)
                IN  [c \in 1..n |->
                       FAdd(FMul(u, at(start_q, c)), FMul(t, at(end_q, c)))]]

\* SimplePlanner.interpolate(start_q, end_q, steps): the list of steps
\* configurations q = (1 - t) * start_q + t * end_q; numpy stretches an
\* operand of length 1 and raises for other unequal lengths
interpolate(start_q, end_q, steps) ==
    IF /\ Len(start_q) # Len(end_q)
       /\ Len(start_q) # 1
       /\ Len(end_q) # 1
       /\ steps > 0
    THEN ValueError
    ELSE LET n == IF Len(start_q) = 1 THEN Len(end_q) ELSE Len(start_q)
             at(q, c) == IF Len(q) = 1 THEN q[1] ELSE q[c]
         IN  [i \in 1..steps |->
                LET t == IF steps > 1 THEN FDiv(i - 1, steps - 1) ELSE FZero
                    u == FSub(FromInt(1), t)
                IN  [c \in 1..n |->
                       FAdd(FMul(u, at(start_q, c)), FMul(t, at(end_q, c)))]]

\* a call planner.interpolate(start_q, end_q, steps) from outside the
\* planner, with what it returned or raised
call_interpolate(start_q, end_q, steps) ==
    /\ icall = None
    /\ icall' = [start_q |-> start_q, end_q |-> end_q, steps |-> steps,
                 result  |-> interpolate(start_q, end_q, steps)]
    /\ UNCHANGED not_interp

\* the arguments of those calls: configurations of no, one, two and three
\* joints, and step counts from 0 to the segment length of plan_grasp
Configurations ==
    { << >>,
      <<FZero>>, <<FromInt(1)>>,
      <<FDiv(4, 100), FDiv(1, 10)>>, <<FromInt(1), FZero>>,
      np_zeros(3), np_ones(3), [c \in 1..3 |-> FDiv(c, 10)] }

StepCounts == {0, 1, 2, 3, 20, 50}

\* the constants of plan_grasp
steps_per_segment == 50
close_gripper_steps == 20
open_val == FDiv(4, 100)
closed_val == FZero
down_quat == <<0, 1, 0, 0>>

\* the robots handed to plan_grasp: the mock of the tests (nine joints at
\* zero), a robot whose joints all stand at the open value, a robot of three
\* joints, one without get_q and one without inverse_kinematics
Robot(has_get_q, has_ik, q) ==
    [has_get_q |-> has_get_q, has_ik |-> has_ik, q |-> q]

Robots ==
    { Robot(TRUE, TRUE, np_zeros(9)),
      Robot(TRUE, TRUE, [c \in 1..9 |-> open_val]),
      Robot(TRUE, TRUE, np_zeros(3)),
      Robot(FALSE, TRUE, << >>),
      Robot(TRUE, FALSE, np_zeros(9)) }

\* the robots of two calls in a row: three joints, with and without
\* inverse_kinematics
RepeatRobots ==
    { Robot(TRUE, TRUE, np_zeros(3)), Robot(TRUE, FALSE, np_zeros(3)) }

\* the configurations inverse_kinematics may return: np.ones(9) as in the
\* tests, the joints 0.1 .. 0.9, and two configurations of three joints
Answers ==
    { np_ones(9), [c \in 1..9 |-> FDiv(c, 10)],
      np_ones(3), [c \in 1..3 |-> FDiv(c, 10)] }

\* values np.random.uniform(-1, 1, size=n) may return: all -0.5 or all 0.25
Uniform(n) == { [c \in 1..n |-> v] : v \in {Round(-1, -1), Round(1, -2)} }

\* target positions: [0.5, 0.0, 0.05] of the tests and [0.25, 0.5, 0.0]
ReferenceTarget == <<FDiv(5, 10), FZero, FDiv(5, 100)>>

Targets == { ReferenceTarget, <<FDiv(25, 100), FDiv(5, 10), FZero>> }

\* the three positions handed to inverse kinematics: pre-grasp (the target
\* plus [0, 0, 0.1]), grasp (the target) and lift (the pre-grasp position)
KeyPositions(target_position) ==
    LET pre_grasp_pos ==
            [target_position EXCEPT ![3] = FAdd(@, FDiv(1, 10))]
        grasp_pos == target_position
        lift_pos  == pre_grasp_pos
    IN  <<pre_grasp_pos, grasp_pos, lift_pos>>

\* set_gripper setting the last entry only
set_gripper_last(q, val) ==
    IF Len(q) >= 2
    THEN [c \in 1..Len(q) |-> IF c > Len(q) - 1 THEN val ELSE q[c]]
    ELSE q

\* set_gripper leaving the configuration as inverse kinematics returned it
set_gripper_skip(q, val) == q

\* the helper set_gripper(q, val) of plan_grasp: a copy of q with its last
\* two entries set to val, when it has two
set_gripper(q, val) ==
    IF Len(q) >= 2
    THEN [c \in 1..Len(q) |-> IF c > Len(q) - 2 THEN val ELSE q[c]]
    ELSE q

\* plan_grasp closing the gripper on the way to the lift configuration
Segments_moving(home, keys) ==
    LET pre_grasp_q == set_gripper(keys[1], open_val)
        grasp_q     == set_gripper(keys[2], open_val)
        lift_q      == set_gripper(keys[3], closed_val)
    IN  << interpolate(home, pre_grasp_q, steps_per_segment),
           interpolate(pre_grasp_q, grasp_q, steps_per_segment),
           interpolate(grasp_q, lift_q, close_gripper_steps),
           interpolate(lift_q, lift_q, steps_per_segment) >>

\* plan_grasp with the close segment of the length of the other segments
Segments_even(home, keys) ==
    LET pre_grasp_q    == set_gripper(keys[1], open_val)
        grasp_q        == set_gripper(keys[2], open_val)
        lift_q         == set_gripper(keys[3], closed_val)
        grasp_q_closed == set_gripper(grasp_q, closed_val)
    IN  << interpolate(home, pre_grasp_q, steps_per_segment),
           interpolate(pre_grasp_q, grasp_q, steps_per_segment),
           interpolate(grasp_q, grasp_q_closed, steps_per_segment),
           interpolate(grasp_q_closed, lift_q, steps_per_segment) >>

\* plan_grasp starting each segment one step after the end of the one
\* before it
Segments_dedup(home, keys) ==
    LET pre_grasp_q    == set_gripper(keys[1], open_val)
        grasp_q        == set_gripper(keys[2], open_val)
        lift_q         == set_gripper(keys[3], closed_val)
        grasp_q_closed == set_gripper(grasp_q, closed_val)
        rest(seg)      == IF seg = ValueError THEN seg ELSE Tail(seg)
    IN  << interpolate(home, pre_grasp_q, steps_per_segment),
           rest(interpolate(pre_grasp_q, grasp_q, steps_per_segment + 1)),
           rest(interpolate(grasp_q, grasp_q_closed,
                            close_gripper_steps + 1)),
           rest(interpolate(grasp_q_closed, lift_q,
                            steps_per_segment + 1)) >>

\* the part of plan_grasp after the three keyframes are resolved to keys:
\* the gripper overrides and the four interpolated segments
Segments(home, keys) ==
    LET pre_grasp_q    == set_gripper(keys[1], open_val)
        grasp_q        == set_gripper(keys[2], open_val)
        lift_q         == set_gripper(keys[3], closed_val)
        grasp_q_closed == set_gripper(grasp_q, closed_val)
    IN  << interpolate(home, pre_grasp_q, steps_per_segment),
           interpolate(pre_grasp_q, grasp_q, steps_per_segment),
           interpolate(grasp_q, grasp_q_closed, close_gripper_steps),
           interpolate(grasp_q_closed, lift_q, steps_per_segment) >>

\* what plan_grasp ends with once the keyframes are resolved: the
\* concatenation of the segments, or the ValueError of an interpolate, which
\* is raised outside the try block
Outcome(home, keys) ==
    LET segs == Segments(home, keys)
    IN  IF \E s \in 1..4 : segs[s] = ValueError
        THEN [outcome |-> "ValueError"]
        ELSE [outcome    |-> "ok",
              trajectory |-> segs[1] \o segs[2] \o segs[3] \o segs[4]]

\* plan_grasp(robot, target_position) up to its first call of solve_ik: the
\* current configuration is read, or taken as np.zeros(9) with a warning
Enter(r, target_position) ==
    /\ pc \in {"idle", "done"}
    /\ robot' = r
    /\ target' = target_position
    /\ home_q' = IF r.has_get_q THEN r.q ELSE np_zeros(9)
    /\ warned' = IF r.has_get_q THEN {} ELSE {"get_q"}
    /\ keyframes' = << >>
    /\ ik_log' = << >>
    /\ result' = [outcome |-> "pending"]
    /\ pc' = "solve_ik"
    /\ UNCHANGED not_planner

\* a call of plan_grasp whose caller holds no result of an earlier call
plan_grasp(r, target_position) ==
    /\ Enter(r, target_position)
    /\ prev' = None

\* a second call of plan_grasp on the same planner, robot and target by a
\* caller that keeps what the first call did and returned
plan_again ==
    /\ pc = "done"
    /\ prev = None
    /\ Enter(robot, target)
    /\ prev' = [ik_log |-> ik_log, keyframes |-> keyframes,
                result |-> result]

\* solve_ik has returned q for the keyframe in turn; after the third
\* keyframe plan_grasp runs to its end
Resolved(q) ==
    LET keys == Append(keyframes, q)
    IN  /\ keyframes' = keys
        /\ IF Len(keys) = 3
           THEN result' = Outcome(home_q, keys) /\ pc' = "done"
           ELSE result' = result /\ pc' = "solve_ik"

\* the record of one call of robot.inverse_kinematics for the keyframe in
\* turn
IKCall(raised, q) ==
    [pos    |-> KeyPositions(target)[Len(keyframes) + 1],
     quat   |-> down_quat,
     raised |-> raised,
     answer |-> q]

\* solve_ik going on with a configuration of its own when
\* inverse_kinematics raised
solve_ik_swallow ==
    /\ pc = "solve_ik"
    /\ UNCHANGED <<not_planner, robot, target, home_q, prev>>
    /\ \/ /\ robot.has_ik
          /\ \E q \in Answers :
                /\ ik_log' = Append(ik_log, IKCall(FALSE, q))
                /\ Resolved(q)
          /\ warned' = warned
       \/ /\ robot.has_ik
          /\ ik_log' = Append(ik_log, IKCall(TRUE, << >>))
          /\ \E q \in Uniform(Len(home_q)) : Resolved(q)
          /\ warned' = warned
       \/ /\ ~robot.has_ik
          /\ warned' = warned \cup {"inverse_kinematics"}
          /\ \E q \in Uniform(Len(home_q)) : Resolved(q)
          /\ ik_log' = ik_log

\* one call of the helper solve_ik(pos, quat) of plan_grasp, for the
\* keyframe in turn: the robot's inverse_kinematics returns a configuration,
\* or it raises and plan_grasp ends with RuntimeError; without the method a
\* random configuration of the length of home_q is returned with a warning
solve_ik ==
    /\ pc = "solve_ik"
    /\ UNCHANGED <<not_planner, robot, target, home_q, prev>>
    /\ \/ /\ robot.has_ik
          /\ \E q \in Answers :
                /\ ik_log' = Append(ik_log, IKCall(FALSE, q))
                /\ Resolved(q)
          /\ warned' = warned
       \/ /\ robot.has_ik
          /\ ik_log' = Append(ik_log, IKCall(TRUE, << >>))
          /\ result' = [outcome |-> "RuntimeError"]
          /\ pc' = "done"
          /\ UNCHANGED <<keyframes, warned>>
       \/ /\ ~robot.has_ik
          /\ warned' = warned \cup {"inverse_kinematics"}
          /\ \E q \in Uniform(Len(home_q)) : Resolved(q)
          /\ ik_log' = ik_log

(***************************************************************************)
(* The store and the planner as state machines, driven separately.         *)
(***************************************************************************)
(***************************************************************************)
(* Model of the task generator (src/vla_synthesis/src/task_generator.py,   *)
(* class TaskGenerator).                                                   *)
(*                                                                         *)
(* The scene is the list of the entities added to it, in order of          *)
(* addition; an entity is the morph it was created from.  A string built   *)
(* from a template is the sequence of the template's pieces with the       *)
(* placeholders filled in.  Coordinates are in hundredths.                 *)
(***************************************************************************)
\* the most entities the scene holds
MaxEntities == 2

\* the keys of ASSET_DB and the keys of COLOR_DB the model draws from
ASSET_DB == {"cube", "sphere", "mug"}
COLOR_DB == {"red", "green"}

\* x in [0.3, 0.7], y in [-0.2, 0.2], z = 0.05
Positions == { <<30, -20, 5>>, <<70, 20, 5>> }

templates ==
    << <<"Pick up the ", "{color}", " ", "{object}">>,
       <<"Grasp the ", "{color}", " item">>,
       <<"Move the ", "{object}">>,
       <<"Retrieve the ", "{color}", " ", "{object}">> >>

\* template.format(color=color_name, object=obj_name)
format(template, color_name, obj_name) ==
    [k \in 1..Len(template) |->
        IF template[k] = "{color}" THEN color_name
        ELSE IF template[k] = "{object}" THEN obj_name
        ELSE template[k]]

\* a Python pair
Pair(a, b) == [first |-> a, second |-> b]

\* the scene without the entity at position k of its list
Without(entities, k) ==
    SubSeq(entities, 1, k - 1) \o SubSeq(entities, k + 1, Len(entities))

\* scene.remove_entity(entity): the scene loses the entity when it holds it
remove_entity(entities, entity) ==
    IF \E k \in 1..Len(entities) : entities[k] = entity
    THEN Without(entities,
                 CHOOSE k \in 1..Len(entities) : entities[k] = entity)
    ELSE entities

\* TaskGenerator() in a process where `import genesis` succeeded (has_gs) or
\* failed, and the genesis scene handed to reset_task, offering
\* remove_entity or not
new_TaskGenerator(has_gs, has_remove_entity) ==
    /\ gen = None
    /\ gen' = [gs |-> has_gs,
               current_object |-> None,
               instruction |-> << >>,
               target_object_entity |-> None,
               ASSET_DB |-> IF has_gs THEN ASSET_DB ELSE {}]
    /\ scene' = [has_remove_entity |-> has_remove_entity, entities |-> << >>]
    /\ ret' = None
    /\ UNCHANGED not_task

\* the scene after the removal of the previous entity at the start of
\* reset_task; a remove_entity that raises is caught and removes nothing
Cleared(g, sc, remove_raises) ==
    IF g.target_object_entity # None /\ sc.has_remove_entity
       /\ ~remove_raises
    THEN [sc EXCEPT !.entities = remove_entity(@, g.target_object_entity)]
    ELSE sc

\* the generator, the scene and the outcome of reset_task(scene): the
\* previous entity removed when the scene allows it, the fields reset, a
\* morph of a random object, colour and position added to the scene and
\* kept as target_object_entity, the instruction formatted from a random
\* template; the method has no return statement.  warned: the warning of a
\* removal that raised was printed.
ResetTask(g, sc, obj_name, color_name, pos, template, remove_raises, morph_raises) ==
    LET cleared == Cleared(g, sc, remove_raises)
        reset   == [g EXCEPT !.target_object_entity = None,
                             !.instruction = << >>]
        morph   == [object |-> obj_name, color |-> color_name, pos |-> pos]
        spawned == [reset EXCEPT
                       !.target_object_entity = morph,
                       !.instruction = format(template, color_name, obj_name)]
        warning == /\ g.target_object_entity # None
                   /\ sc.has_remove_entity
                   /\ remove_raises
    IN  IF ~g.gs
        THEN [gen |-> g, scene |-> sc,
              ret |-> [call |-> "reset_task", raised |-> "ImportError",
                       warned |-> FALSE]]
        ELSE IF morph_raises
        THEN [gen |-> reset, scene |-> cleared,
              ret |-> [call |-> "reset_task", raised |-> "RuntimeError",
                       warned |-> warning]]
        ELSE [gen |-> spawned,
              scene |-> [cleared EXCEPT !.entities = Append(@, morph)],
              ret |-> [call |-> "reset_task", raised |-> "no",
                       warned |-> warning, value |-> None]]

reset_task ==
    /\ gen # None
    /\ Len(scene.entities) < MaxEntities
    /\ \E obj_name \in (IF gen.gs THEN gen.ASSET_DB ELSE {"none"}) :
       \E color_name \in COLOR_DB : \E pos \in Positions :
       \E t \in 1..Len(templates) :
       \E remove_raises \in BOOLEAN : \E morph_raises \in BOOLEAN :
          LET after == ResetTask(gen, scene, obj_name, color_name, pos,
                                 templates[t], remove_raises, morph_raises)
          IN  /\ gen' = after.gen
              /\ scene' = after.scene
              /\ ret' = after.ret
    /\ UNCHANGED not_task

\* get_instruction(): the pair of the two fields
get_instruction ==
    /\ gen # None
    /\ ret' = [call |-> "get_instruction", raised |-> "no",
               value |-> Pair(gen.instruction, gen.target_object_entity)]
    /\ UNCHANGED <<gen, scene, not_task>>

(***************************************************************************)
(* Model of the generation loop (src/vla_synthesis/main_generate.py,       *)
(* main).                                                                  *)
(*                                                                         *)
(* The scene manager and the robot are seen through the calls main makes   *)
(* on them, kept in calls in the order they are made.  The planner is seen *)
(* through what plan_grasp returns or raises.  The task generator is       *)
(* TaskGenerator or, as in tests/test_main_integration.py, a mock whose    *)
(* reset_task returns a pair.                                              *)
(***************************************************************************)
MAX_STEPS == 200

\* the last iteration of an episode's execution loop in which a call may
\* fail
MaxFailStep == 1

\* range(NUM_EPISODES)
EpisodeRange == Episodes

\* the method main finds on scene.robot (control_dofs_position, else
\* control_joints, else set_q), or none of them
RobotKinds == {"control_dofs_position", "control_joints", "set_q", "none"}

\* the trajectory lengths plan_grasp returns: the dummy trajectory of the
\* integration test, the four segments of SimplePlanner, and one more than
\* MAX_STEPS
PlannedLengths ==
    {10, 3 * steps_per_segment + close_gripper_steps, MAX_STEPS + 1}

\* a trajectory of L configurations, all different
Trajectory(L) == [i \in 1..L |-> Arr(<<2>>, <<i, 0>>)]

\* what planner.plan_grasp(scene.robot, target_pos) returns or raises
Plans ==
    { [raised |-> "RuntimeError"] }
    \cup { [raised |-> "no", trajectory |-> Trajectory(L)] :
             L \in PlannedLengths }

\* the target of the mocked task generator, and what its reset_task returns
mock_target_obj == [accessor |-> "get_position", pos |-> ReferenceTarget]
MockReturns ==
    { Pair("Pick up the cube", mock_target_obj),
      Pair("Pick up the cube", None) }

\* the image scene.render() returns at the resolution of the scene manager
rgb == obsA

\* a, b = value
Unpackable(value) == "first" \in DOMAIN value

\* the target position main hands to the planner
TargetPos(obj) ==
    IF obj.accessor \in {"get_position", "get_pos"} THEN obj.pos
    ELSE ReferenceTarget

Call(name, arg) == [call |-> name, arg |-> arg]

\* the calls of one iteration of the execution loop for the configuration
\* action on a robot of the given kind: control, step, render, save_step
Iteration(kind, episode_idx, observation, action, instruction) ==
    (IF kind = "none" THEN << >> ELSE << Call(kind, action) >>)
    \o << Call("scene.step", None),
          Call("scene.render", None),
          Call("save_step", [episode_idx |-> episode_idx,
                             observation |-> observation,
                             action |-> action,
                             instruction |-> instruction,
                             reward |-> 0]) >>

\* lines 23-44: the components are constructed; an exception returns from
\* main before the loop
initialize(kind, robot_kind, raised) ==
    /\ mpc = "start"
    /\ IF raised
       THEN /\ mpc' = "returned"
            /\ printed' = [message |-> "Initialization failed"]
            /\ UNCHANGED <<task_gen, control, gen, scene, file, last>>
       ELSE /\ mpc' = "loop"
            /\ printed' = [message |-> "Starting generation"]
            /\ task_gen' = kind
            /\ control' = robot_kind
            /\ gen' = IF kind = "TaskGenerator"
                      THEN [gs |-> TRUE,
                            current_object |-> None,
                            instruction |-> << >>,
                            target_object_entity |-> None,
                            ASSET_DB |-> ASSET_DB]
                      ELSE None
            /\ scene' = [has_remove_entity |-> TRUE,
                         entities |-> << [object |-> "Plane"],
                                         [object |-> "Franka"] >>]
            /\ file' = << >>
            /\ last' = [op |-> "init", outcome |-> "ok"]
    /\ UNCHANGED <<ret, cur_ep, text_instr, target_obj, actions_trajectory,
                   step_count, calls, not_main>>

\* the episode loop going through the same episode again
NextEpisode_retry(msg) ==
    /\ printed' = [episode |-> cur_ep, message |-> msg]
    /\ cur_ep' = cur_ep
    /\ mpc' = "loop"

\* the iteration of the episode loop ends with the message msg
NextEpisode(msg) ==
    /\ printed' = [episode |-> cur_ep, message |-> msg]
    /\ cur_ep' = cur_ep + 1
    /\ mpc' = "loop"

\* the episode entering its execution loop without create_episode_group
Prepare_no_group(returned, after, plan) ==
    LET c1 == << Call("scene.reset", None), Call("reset_task", None) >>
        c2 == c1 \o << Call("scene.randomize_lighting", None) >>
        pos == TargetPos(returned.value.second)
        c3 == c2 \o << Call("plan_grasp", pos) >>
    IN  /\ gen' = after.gen
        /\ scene' = after.scene
        /\ ret' = returned
        /\ IF returned.raised # "no"
           THEN /\ calls' = c1
                /\ NextEpisode(IF returned.raised = "RuntimeError"
                               THEN "failed (RuntimeError)"
                               ELSE "failed (Unexpected)")
                /\ UNCHANGED <<text_instr, target_obj, actions_trajectory,
                               step_count, file, last>>
           ELSE IF ~Unpackable(returned.value)
           THEN /\ calls' = c1
                /\ NextEpisode("failed (Unexpected)")
                /\ UNCHANGED <<text_instr, target_obj, actions_trajectory,
                               step_count, file, last>>
           ELSE /\ text_instr' = returned.value.first
                /\ target_obj' = returned.value.second
                /\ IF returned.value.second = None
                   THEN /\ calls' = c2
                        /\ NextEpisode("skipped")
                        /\ UNCHANGED <<actions_trajectory, step_count,
                                       file, last>>
                   ELSE IF plan.raised # "no"
                   THEN /\ calls' = c3
                        /\ NextEpisode("failed (RuntimeError)")
                        /\ UNCHANGED <<actions_trajectory, step_count,
                                       file, last>>
                   ELSE /\ calls' = c3
                        /\ actions_trajectory' = plan.trajectory
                        /\ UNCHANGED <<file, last>>
                        /\ step_count' = 0
                        /\ mpc' = "execute"
                        /\ UNCHANGED <<cur_ep, printed>>

\* the episode creating its group before it plans
Prepare_group_first(returned, after, plan) ==
    LET c1 == << Call("scene.reset", None), Call("reset_task", None) >>
        c2 == c1 \o << Call("scene.randomize_lighting", None) >>
        pos == TargetPos(returned.value.second)
        c3 == c2 \o << Call("create_episode_group", cur_ep),
                       Call("plan_grasp", pos) >>
        c4 == c3
    IN  /\ gen' = after.gen
        /\ scene' = after.scene
        /\ ret' = returned
        /\ IF returned.raised # "no"
           THEN /\ calls' = c1
                /\ NextEpisode(IF returned.raised = "RuntimeError"
                               THEN "failed (RuntimeError)"
                               ELSE "failed (Unexpected)")
                /\ UNCHANGED <<text_instr, target_obj, actions_trajectory,
                               step_count, file, last>>
           ELSE IF ~Unpackable(returned.value)
           THEN /\ calls' = c1
                /\ NextEpisode("failed (Unexpected)")
                /\ UNCHANGED <<text_instr, target_obj, actions_trajectory,
                               step_count, file, last>>
           ELSE /\ text_instr' = returned.value.first
                /\ target_obj' = returned.value.second
                /\ IF returned.value.second = None
                   THEN /\ calls' = c2
                        /\ NextEpisode("skipped")
                        /\ UNCHANGED <<actions_trajectory, step_count,
                                       file, last>>
                   ELSE IF plan.raised # "no"
                   THEN /\ calls' = c3
                        /\ NextEpisode("failed (RuntimeError)")
                        /\ file' = CreateGroup(file, cur_ep)
                        /\ last' = [op |-> "create_episode_group",
                                    ep |-> cur_ep,
                                    replaced |-> Discarded(file, cur_ep),
                                    outcome |-> "ok"]
                        /\ UNCHANGED <<actions_trajectory, step_count>>
                   ELSE /\ calls' = c4
                        /\ actions_trajectory' = plan.trajectory
                        /\ file' = CreateGroup(file, cur_ep)
                        /\ last' = [op |-> "create_episode_group",
                                    ep |-> cur_ep,
                                    replaced |-> Discarded(file, cur_ep),
                                    outcome |-> "ok"]
                        /\ step_count' = 0
                        /\ mpc' = "execute"
                        /\ UNCHANGED <<cur_ep, printed>>

\* lines 48-84: one episode from scene.reset() to the entry of the
\* execution loop, or to the exception or the `continue` that ends it.
\* returned is what task_gen.reset_task hands back, after is the task
\* generator and its scene after that call, plan is the planner's outcome.
Prepare(returned, after, plan) ==
    LET c1 == << Call("scene.reset", None), Call("reset_task", None) >>
        c2 == c1 \o << Call("scene.randomize_lighting", None) >>
        pos == TargetPos(returned.value.second)
        c3 == c2 \o << Call("plan_grasp", pos) >>
        c4 == c3 \o << Call("create_episode_group", cur_ep) >>
    IN  /\ gen' = after.gen
        /\ scene' = after.scene
        /\ ret' = returned
        /\ IF returned.raised # "no"
           THEN /\ calls' = c1
                /\ NextEpisode(IF returned.raised = "RuntimeError"
                               THEN "failed (RuntimeError)"
                               ELSE "failed (Unexpected)")
                /\ UNCHANGED <<text_instr, target_obj, actions_trajectory,
                               step_count, file, last>>
           ELSE IF ~Unpackable(returned.value)
           THEN /\ calls' = c1
                /\ NextEpisode("failed (Unexpected)")
                /\ UNCHANGED <<text_instr, target_obj, actions_trajectory,
                               step_count, file, last>>
           ELSE /\ text_instr' = returned.value.first
                /\ target_obj' = returned.value.second
                /\ IF returned.value.second = None
                   THEN /\ calls' = c2
                        /\ NextEpisode("skipped")
                        /\ UNCHANGED <<actions_trajectory, step_count,
                                       file, last>>
                   ELSE IF plan.raised # "no"
                   THEN /\ calls' = c3
                        /\ NextEpisode("failed (RuntimeError)")
                        /\ UNCHANGED <<actions_trajectory, step_count,
                                       file, last>>
                   ELSE /\ calls' = c4
                        /\ actions_trajectory' = plan.trajectory
                        /\ file' = CreateGroup(file, cur_ep)
                        /\ last' = [op |-> "create_episode_group",
                                    ep |-> cur_ep,
                                    replaced |-> Discarded(file, cur_ep),
                                    outcome |-> "ok"]
                        /\ step_count' = 0
                        /\ mpc' = "execute"
                        /\ UNCHANGED <<cur_ep, printed>>

begin_episode ==
    /\ mpc = "loop"
    /\ cur_ep \in EpisodeRange
    /\ \E plan \in Plans :
          IF task_gen = "TaskGenerator"
          THEN \E pos \in Positions : \E morph_raises \in BOOLEAN :
                  LET after == ResetTask(gen, scene, "cube", "red", pos,
                                         templates[1], FALSE, morph_raises)
                  IN  Prepare(after.ret, after, plan)
          ELSE \E value \in MockReturns :
                  Prepare([call |-> "reset_task", raised |-> "no",
                           value |-> value],
                          [gen |-> gen, scene |-> scene], plan)
    /\ UNCHANGED <<task_gen, control, not_main>>

\* what can go wrong in an iteration of the execution loop: the control
\* call, scene.step() or scene.render() raises, or render returns an image
\* of another resolution than the one of the steps before it, which
\* save_step rejects.  The model lets this happen in the first iterations
\* of an episode only.
Failures == {"control", "scene.step", "scene.render"}
Images == {rgb, obsTall}

Possible(failure, image) ==
    /\ failure # "no" => step_count <= MaxFailStep /\ image = rgb
    /\ failure = "control" => control # "none"
    /\ image # rgb => step_count >= 1 /\ step_count <= MaxFailStep

\* the message of the except clause that catches the exception of the
\* failing call: RuntimeError from the simulation, another exception from
\* the robot
Message(failure) ==
    IF failure = "control" THEN "failed (Unexpected)"
    ELSE "failed (RuntimeError)"

\* the body of the execution loop for the configuration at step_count
Iterate(failure, image) ==
    LET action == actions_trajectory[step_count + 1]
        its    == Iteration(control, cur_ep, image, action, text_instr)
        upto   == CASE failure = "control"      -> 1
                    [] failure = "scene.step"   -> Len(its) - 2
                    [] failure = "scene.render" -> Len(its) - 1
                    [] OTHER                    -> Len(its)
        step   == Step(image, action, text_instr, 0, None)
        opened == IF cur_ep \notin DOMAIN file
                  THEN CreateGroup(file, cur_ep) ELSE file
        res    == SaveStepGroup(opened[cur_ep], step)
    IN  /\ calls' = calls \o SubSeq(its, 1, upto)
        /\ IF failure # "no"
           THEN /\ NextEpisode(Message(failure))
                /\ UNCHANGED <<step_count, file, last>>
           ELSE /\ file' = [opened EXCEPT ![cur_ep] = res.grp]
                /\ last' = [op |-> "save_step", ep |-> cur_ep, step |-> step,
                            created |-> cur_ep \notin DOMAIN file,
                            outcome |-> IF res.raised THEN "TypeError"
                                        ELSE "ok"]
                /\ IF res.raised
                   THEN /\ NextEpisode("failed (Unexpected)")
                        /\ UNCHANGED step_count
                   ELSE /\ step_count' = step_count + 1
                        /\ UNCHANGED <<mpc, cur_ep, printed>>

\* the execution loop without the test of step_count against MAX_STEPS
execute_step_uncapped ==
    /\ mpc = "execute"
    /\ step_count < Len(actions_trajectory)
    /\ \E failure \in {"no"} \cup Failures : \E image \in Images :
          Possible(failure, image) /\ Iterate(failure, image)
    /\ UNCHANGED <<task_gen, control, text_instr, target_obj,
                   actions_trajectory, tvars, not_main>>

\* lines 85-112: one iteration of the execution loop
execute_step ==
    /\ mpc = "execute"
    /\ step_count < Len(actions_trajectory)
    /\ step_count < MAX_STEPS
    /\ \E failure \in {"no"} \cup Failures : \E image \in Images :
          Possible(failure, image) /\ Iterate(failure, image)
    /\ UNCHANGED <<task_gen, control, text_instr, target_obj,
                   actions_trajectory, tvars, not_main>>

\* the execution loop ends: the trajectory is exhausted, or step_count
\* reached MAX_STEPS and the loop breaks
end_episode ==
    /\ mpc = "execute"
    /\ step_count >= Len(actions_trajectory) \/ step_count >= MAX_STEPS
    /\ NextEpisode("generated")
    /\ UNCHANGED <<task_gen, control, text_instr, target_obj,
                   actions_trajectory, step_count, calls, svars, tvars,
                   not_main>>

\* line 124, after the last episode: recorder.close() raises, as close
\* does, and main ends with that exception
finish ==
    /\ mpc = "loop"
    /\ cur_ep \notin EpisodeRange
    /\ mpc' = "raised"
    /\ last' = [op |-> "close", outcome |-> "AttributeError"]
    /\ UNCHANGED <<file, task_gen, control, cur_ep, text_instr, target_obj,
                   actions_trajectory, step_count, calls, printed, tvars,
                   not_main>>

(***************************************************************************)
(* Model of the scene manager (src/vla_synthesis/src/scene_manager.py,     *)
(* class SceneManager): its camera and its light.                          *)
(*                                                                         *)
(* A camera or a light is the record of the parameters it was created      *)
(* with or last set to.  gscene counts the cameras and the lights added to *)
(* the genesis scene.  Coordinates and intensities are in hundredths.      *)
(***************************************************************************)
base_pos == <<100, 0, 80>>
look_at_target == <<50, 0, 0>>

\* np.random.uniform(-0.05, 0.05, size=3) and (-0.02, 0.02, size=3)
PosNoise == { <<-5, -5, -5>>, <<5, 0, -5>> }
TargetNoise == { <<-2, -2, -2>>, <<2, 0, -2>> }

\* np.random.uniform(low=[1, 1, 2], high=[3, 3, 4]) and (2.0, 5.0)
LightPositions == { <<100, 100, 200>>, <<300, 300, 400>> }
Intensities == {200, 500}

\* the ways a camera is updated (set_pose, else set_position with
\* set_lookat, else not at all) and the setters a light offers
CameraKinds == {"set_pose", "set_position", "none"}
LightKinds == [set_pos : BOOLEAN, set_intensity : BOOLEAN]

Plus(u, v) == [k \in 1..Len(u) |-> u[k] + v[k]]

\* SceneManager(debug): no robot, no camera, no light yet; the kinds are
\* those of the cameras and lights its genesis scene hands out
new_SceneManager(camera_kind, light_kind) ==
    /\ manager = None
    /\ manager' = [camera |-> None, light |-> None,
                   camera_kind |-> camera_kind, light_kind |-> light_kind]
    /\ gscene' = [cameras |-> 0, lights |-> 0]
    /\ scall' = [call |-> "SceneManager", added |-> {}]
    /\ UNCHANGED not_scene

\* setup_camera adding a camera on every call
SetupCamera_readd(m, g, cam_pos, look_at) ==
    [manager |-> [m EXCEPT !.camera = [pos |-> cam_pos, lookat |-> look_at]],
     gscene  |-> [g EXCEPT !.cameras = @ + 1],
     added   |-> {"camera"}]

\* the manager and the scene after setup_camera with the randomized pose
SetupCamera(m, g, cam_pos, look_at) ==
    IF m.camera = None
    THEN [manager |-> [m EXCEPT !.camera = [pos |-> cam_pos,
                                            lookat |-> look_at]],
          gscene  |-> [g EXCEPT !.cameras = @ + 1],
          added   |-> {"camera"}]
    ELSE [manager |-> IF m.camera_kind = "none" THEN m
                      ELSE [m EXCEPT !.camera = [pos |-> cam_pos,
                                                 lookat |-> look_at]],
          gscene  |-> g,
          added   |-> {}]

\* the manager and the scene after randomize_lighting with the randomized
\* position and intensity
RandomizeLighting(m, g, light_pos, intensity) ==
    IF m.light = None
    THEN [manager |-> [m EXCEPT !.light = [pos |-> light_pos,
                                           intensity |-> intensity]],
          gscene  |-> [g EXCEPT !.lights = @ + 1],
          added   |-> {"light"}]
    ELSE [manager |->
             [m EXCEPT !.light =
                 [pos |-> IF m.light_kind.set_pos
                          THEN light_pos ELSE @.pos,
                  intensity |-> IF m.light_kind.set_intensity
                                THEN intensity ELSE @.intensity]],
          gscene  |-> g,
          added   |-> {}]

setup_camera ==
    /\ manager # None
    /\ \E pos_noise \in PosNoise : \E target_noise \in TargetNoise :
          LET after == SetupCamera(manager, gscene,
                                   Plus(base_pos, pos_noise),
                                   Plus(look_at_target, target_noise))
          IN  /\ manager' = after.manager
              /\ gscene' = after.gscene
              /\ scall' = [call |-> "setup_camera", added |-> after.added]
    /\ UNCHANGED not_scene

randomize_lighting ==
    /\ manager # None
    /\ \E light_pos \in LightPositions : \E intensity \in Intensities :
          LET after == RandomizeLighting(manager, gscene, light_pos,
                                         intensity)
          IN  /\ manager' = after.manager
              /\ gscene' = after.gscene
              /\ scall' = [call |-> "randomize_lighting",
                           added |-> after.added]
    /\ UNCHANGED not_scene

\* reset(): setup_camera() and then randomize_lighting()
reset ==
    /\ manager # None
    /\ \E pos_noise \in PosNoise : \E target_noise \in TargetNoise :
       \E light_pos \in LightPositions : \E intensity \in Intensities :
          LET cam   == SetupCamera(manager, gscene,
                                   Plus(base_pos, pos_noise),
                                   Plus(look_at_target, target_noise))
              after == RandomizeLighting(cam.manager, cam.gscene, light_pos,
                                         intensity)
          IN  /\ manager' = after.manager
              /\ gscene' = after.gscene
              /\ scall' = [call |-> "reset",
                           added |-> cam.added \cup after.added]
    /\ UNCHANGED not_scene

\* HDF5Recorder(save_path) on a new path, an empty file, and SimplePlanner()
\* before any plan_grasp
Init ==
    /\ file = << >>
    /\ last = [op |-> "init", outcome |-> "ok"]
    /\ pc = "idle"
    /\ robot = None
    /\ target = None
    /\ home_q = << >>
    /\ keyframes = << >>
    /\ ik_log = << >>
    /\ warned = {}
    /\ result = [outcome |-> "pending"]
    /\ prev = None
    /\ icall = None
    /\ gen = None
    /\ scene = None
    /\ ret = None
    /\ mpc = "start"
    /\ task_gen = None
    /\ control = None
    /\ cur_ep = 0
    /\ text_instr = None
    /\ target_obj = None
    /\ actions_trajectory = << >>
    /\ step_count = 0
    /\ calls = << >>
    /\ printed = None
    /\ manager = None
    /\ gscene = None
    /\ scall = None

Next ==
    \/ \E ep \in Episodes : create_episode_group(ep)
    \/ \E ep \in Episodes : \E step \in Steps : save_step(ep, step)
    \/ set_attr
    \/ close

Spec == Init /\ [][Next]_vars

PlanNext ==
    \/ \E r \in Robots : \E tp \in Targets : plan_grasp(r, tp)
    \/ solve_ik

PlanSpec == Init /\ [][PlanNext]_vars

\* two calls of plan_grasp in a row on one planner, robot and target
RepeatNext ==
    \/ \E r \in RepeatRobots : plan_grasp(r, ReferenceTarget)
    \/ plan_again
    \/ solve_ik

RepeatSpec == Init /\ [][RepeatNext]_vars

\* interpolate as a function of its arguments
InterpNext ==
    \E start_q \in Configurations : \E end_q \in Configurations :
       \E steps \in StepCounts : call_interpolate(start_q, end_q, steps)

InterpSpec == Init /\ [][InterpNext]_vars

\* a task generator and the calls on it
TaskNext ==
    \/ \E has_gs \in BOOLEAN : \E has_remove_entity \in BOOLEAN :
          new_TaskGenerator(has_gs, has_remove_entity)
    \/ reset_task
    \/ get_instruction

TaskSpec == Init /\ [][TaskNext]_vars

\* one run of main
MainNext ==
    \/ \E kind \in {"TaskGenerator", "MagicMock"} :
       \E robot_kind \in RobotKinds : \E raised \in BOOLEAN :
          initialize(kind, robot_kind, raised)
    \/ begin_episode
    \/ execute_step
    \/ end_episode
    \/ finish

MainSpec == Init /\ [][MainNext]_vars

\* a scene manager and the calls that touch its camera and its light
SceneNext ==
    \/ \E camera_kind \in CameraKinds : \E light_kind \in LightKinds :
          new_SceneManager(camera_kind, light_kind)
    \/ setup_camera
    \/ randomize_lighting
    \/ reset

SceneSpec == Init /\ [][SceneNext]_vars

(***************************************************************************)
(* Vocabulary of the properties.                                           *)
(***************************************************************************)
Mandatory == {"observation", "action", "reward", "instruction"}
Streams == Mandatory \cup {"state"}

\* number of rows of a stream of episode ep in file f (0 when ep is absent)
StreamLen(f, ep, name) ==
    IF ep \in DOMAIN f THEN f[ep].dsets[name].shape[1] ELSE 0

\* the four mandatory streams of ep have one length
Aligned(f, ep) ==
    \A n \in Mandatory :
        StreamLen(f, ep, n) = StreamLen(f, ep, "observation")

\* the per-record shape of a stream, once fixed
Fixed(f, ep, name) ==
    ep \in DOMAIN f /\ ~is_uninitialized(f[ep].dsets[name])
        /\ f[ep].dsets[name].shape[1] > 0

\* the call that has just returned
Saved(ep)   == last'.op = "save_step" /\ last'.ep = ep
SavedOk(ep) == Saved(ep) /\ last'.outcome = "ok"
SavedErr(ep) == Saved(ep) /\ last'.outcome # "ok"

(***************************************************************************)
(* C1                                                                      *)
(***************************************************************************)
\* C1: a create leaves the four mandatory streams of the episode with one
\* length, and a successful save_step on an episode whose mandatory
\* streams have one length N (N = 0 for an episode created by the call)
\* leaves them all with length N + 1; so after any sequence of creates
\* and successful save_steps the four lengths agree and count the steps.
C1_LockStep ==
    [][\A ep \in Episodes :
         /\ (last'.op = "create_episode_group" /\ last'.ep = ep)
               => Aligned(file', ep)
         /\ (SavedOk(ep) /\ Aligned(file, ep))
               => \A n \in Mandatory :
                     StreamLen(file', ep, n)
                        = StreamLen(file, ep, "observation") + 1]_vars

\* three successful steps in a row on one episode
C1_Witness ==
    /\ last.op = "save_step" /\ last.outcome = "ok"
    /\ \A n \in Mandatory : StreamLen(file, last.ep, n) = 3

(***************************************************************************)
(* C2 .. C4                                                                *)
(***************************************************************************)
Shaped == {"observation", "action", "state"}

\* the per-record shape fixed for a stream
RecordShape(f, ep, name) == Tail(f[ep].dsets[name].shape)

\* step supplies, for a stream with a fixed shape, a value of another shape
Mismatch(f, ep, step) ==
    \E n \in Shaped :
        /\ Fixed(f, ep, n)
        /\ step[n] # None
        /\ step[n].shape # RecordShape(f, ep, n)

\* step supplies a value of the fixed shape for every stream that has one
Matches(f, ep, step) ==
    \A n \in Shaped :
        (Fixed(f, ep, n) /\ step[n] # None)
            => step[n].shape = RecordShape(f, ep, n)

\* C2: a save_step that raises because a value does not match the shape
\* fixed for its stream leaves the episode as it was before the call.
C2_FailedAppendLeavesEpisode ==
    [][\A ep \in Episodes :
         (SavedErr(ep) /\ Mismatch(file, ep, last'.step))
            => file'[ep] = file[ep]]_vars

\* C3: when the first k >= 1 steps of an episode omitted state and the
\* next step supplies it, the state stream has k + 1 rows afterwards: k
\* rows of zeros and then the supplied state.
C3_LateStateBackfilled ==
    [][\A ep \in Episodes :
         (/\ SavedOk(ep)
          /\ ep \in DOMAIN file
          /\ Aligned(file, ep)
          /\ StreamLen(file, ep, "observation") >= 1
          /\ StreamLen(file, ep, "state") = 0
          /\ Matches(file, ep, last'.step)
          /\ last'.step.state # None)
            => LET k  == StreamLen(file, ep, "observation")
                   st == file'[ep].dsets.state
                   D  == Len(last'.step.state.data)
               IN  /\ st.shape = <<k + 1, D>>
                   /\ \A i \in 1..k : st.rows[i] = Zeros(D)
                   /\ st.rows[k + 1] = last'.step.state.data]_vars

\* C4: once the state stream has its dimension, every successful
\* save_step leaves it as long as the observation stream, a step without
\* state adding one row of zeros.
C4_StateTracksSteps ==
    [][\A ep \in Episodes :
         (/\ SavedOk(ep)
          /\ Fixed(file, ep, "state")
          /\ Aligned(file, ep)
          /\ Matches(file, ep, last'.step))
            => LET st == file'[ep].dsets.state
               IN  /\ st.shape[1] = StreamLen(file', ep, "observation")
                   /\ last'.step.state = None
                         => st.rows[st.shape[1]] = Zeros(st.shape[2])]_vars

(***************************************************************************)
(* C5, C6                                                                  *)
(***************************************************************************)
\* C5: after create_episode_group(i), on a new index or on one that held an
\* episode, episode i has zero rows in all five streams, no record
\* dimension set on any stream and no attributes, and the call raised
\* nothing.
C5_CreateResets ==
    last.op = "create_episode_group"
        => /\ last.outcome = "ok"
           /\ last.ep \in DOMAIN file
           /\ DOMAIN file[last.ep].dsets = Streams
           /\ \A n \in Streams :
                 LET dset == file[last.ep].dsets[n]
                 IN  /\ dset.rows = <<>>
                     /\ \A i \in 1..Len(dset.shape) : dset.shape[i] = 0
           /\ file[last.ep].attrs = {}

\* a create that replaced an episode holding steps and an attribute
C5_Witness ==
    /\ last.op = "create_episode_group"
    /\ last.replaced # None
    /\ last.replaced.rows >= 2
    /\ last.replaced.attrs # {}

\* C6: create_episode_group(i) and save_step(i, ...), raising or not,
\* leave every other episode as it was: present or absent as before, with
\* the same datasets and attributes.
C6_OtherEpisodesUntouched ==
    [][\A ep \in Episodes : \A j \in Episodes \ {ep} :
         (last'.op \in {"create_episode_group", "save_step"}
             /\ last'.ep = ep)
            => /\ (j \in DOMAIN file') = (j \in DOMAIN file)
               /\ j \in DOMAIN file => file'[j] = file[j]]_vars

\* a raising save_step on episode 1 while episode 0 holds steps with state
C6_Witness ==
    /\ last.op = "save_step" /\ last.ep = 1 /\ last.outcome # "ok"
    /\ Fixed(file, 0, "state")
    /\ StreamLen(file, 1, "observation") >= 2

(***************************************************************************)
(* C7 .. C10                                                               *)
(***************************************************************************)
\* C7: after a save_step that raised, the next save_step on the episode
\* with values of the fixed shapes succeeds and leaves the four mandatory
\* streams with one length.
C7_ContinuableAfterFailure ==
    [][\A ep \in Episodes :
         (/\ last.op = "save_step" /\ last.ep = ep /\ last.outcome # "ok"
          /\ Saved(ep)
          /\ Fixed(file, ep, "observation") /\ Fixed(file, ep, "action")
          /\ Matches(file, ep, last'.step))
            => last'.outcome = "ok" /\ Aligned(file', ep)]_vars

\* C8: a save_step whose observation, action or state has another
\* per-record shape than the one fixed for the stream raises.
C8_MismatchRejected ==
    [][\A ep \in Episodes :
         (Saved(ep) /\ Mismatch(file, ep, last'.step))
            => last'.outcome # "ok"]_vars

\* C9: close() raises nothing, the first time or again.
C9_CloseSucceeds == last.op = "close" => last.outcome = "ok"

\* the flattened value a step supplies for a mandatory stream
Supplied(step, name) ==
    CASE name = "observation" -> step.observation.data
      [] name = "action"      -> step.action.data
      [] name = "reward"      -> <<step.reward>>
      [] name = "instruction" -> <<step.instruction>>

\* C10: a successful save_step adds, to each mandatory stream, one row
\* holding the value supplied and changes no earlier row, so row i holds
\* the value of call i + 1.
C10_AppendOnly ==
    [][\A ep \in Episodes :
         (SavedOk(ep) /\ Aligned(file, ep))
            => \A n \in Mandatory :
                  LET old == IF ep \in DOMAIN file
                             THEN file[ep].dsets[n].rows ELSE <<>>
                      new == file'[ep].dsets[n].rows
                  IN  /\ Len(new) = Len(old) + 1
                      /\ SubSeq(new, 1, Len(old)) = old
                      /\ new[Len(new)] = Supplied(last'.step, n)]_vars

(***************************************************************************)
(* C11 .. C15                                                              *)
(***************************************************************************)
\* a step record of the data model: an image of rank 3, an action vector
\* and, when given, a state vector
WellFormed(step) ==
    /\ Len(step.observation.shape) = 3
    /\ Len(step.action.shape) = 1
    /\ step.state # None => Len(step.state.shape) = 1

\* C11: save_step of a step record on an index without a group returns
\* normally and leaves a group without attributes whose mandatory streams
\* hold exactly the supplied row (and whose state stream holds the supplied
\* state or nothing), as on a group made by create_episode_group; save_step
\* on an existing group keeps its attributes and every row it had.
C11_ImplicitCreate ==
    [][\A ep \in Episodes :
         /\ (Saved(ep) /\ ep \notin DOMAIN file /\ WellFormed(last'.step))
               => /\ last'.outcome = "ok"
                  /\ ep \in DOMAIN file'
                  /\ file'[ep].attrs = {}
                  /\ \A n \in Mandatory :
                        file'[ep].dsets[n].rows
                           = <<Supplied(last'.step, n)>>
                  /\ file'[ep].dsets.state.rows
                        = IF last'.step.state = None THEN <<>>
                          ELSE <<last'.step.state.data>>
         /\ (Saved(ep) /\ ep \in DOMAIN file)
               => /\ file'[ep].attrs = file[ep].attrs
                  /\ \A n \in Streams :
                        LET old == file[ep].dsets[n].rows
                            new == file'[ep].dsets[n].rows
                        IN  /\ Len(new) >= Len(old)
                            /\ SubSeq(new, 1, Len(old)) = old]_vars

\* a save_step that created its group while the other episode held steps,
\* and one on an existing group that holds an attribute
C11_Witness ==
    /\ last.op = "save_step" /\ last.created /\ last.outcome = "ok"
    /\ last.ep = 1
    /\ StreamLen(file, 0, "observation") >= 2
    /\ file[0].attrs # {}

\* C12: while the state dataset of an episode is as created (no state was
\* ever written), a save_step without state leaves it as created: no rows
\* and no dimension.
C12_OmittedStateNoOp ==
    [][\A ep \in Episodes :
         (/\ Saved(ep)
          /\ last'.step.state = None
          /\ ep \in DOMAIN file => file[ep].dsets.state = create_dataset(2))
            => /\ file'[ep].dsets.state.shape = <<0, 0>>
               /\ file'[ep].dsets.state.rows = <<>>]_vars

\* three steps without state on an episode that never had one
C12_Witness ==
    /\ last.op = "save_step" /\ last.outcome = "ok"
    /\ last.step.state = None
    /\ StreamLen(file, last.ep, "observation") = 3
    /\ Aligned(file, last.ep)
    /\ file[last.ep].dsets.state.shape = <<0, 0>>

\* C13: the per-record shape of the observation, action and state streams
\* of an episode, once fixed, stays the same over every call except a
\* create_episode_group on that episode.
C13_ShapesFixed ==
    [][\A ep \in Episodes : \A n \in Shaped :
         (Fixed(file, ep, n)
             /\ ~(last'.op = "create_episode_group" /\ last'.ep = ep))
            => /\ ep \in DOMAIN file'
               /\ RecordShape(file', ep, n) = RecordShape(file, ep, n)]_vars

\* a raising save_step with a mismatching value on an episode whose three
\* shapes are fixed
C13_Witness ==
    /\ last.op = "save_step" /\ last.outcome # "ok"
    /\ \A n \in Shaped : Fixed(file, last.ep, n)
    /\ last.step.action.shape # RecordShape(file, last.ep, "action")

EpisodeState(f, ep) ==
    IF ep \notin DOMAIN f THEN "UNCREATED"
    ELSE IF \A n \in Streams : f[ep].dsets[n] = NewGroup.dsets[n]
         THEN "EMPTY"
         ELSE "ESTABLISHED"

\* C15: an episode becomes EMPTY only by create_episode_group or by the
\* creation inside save_step, becomes ESTABLISHED only by a save_step that
\* returns normally, and leaves ESTABLISHED only by create_episode_group on
\* its index.
C15_LifeCycle ==
    [][\A ep \in Episodes :
         LET before == EpisodeState(file, ep)
             after  == EpisodeState(file', ep)
         IN  /\ (after = "EMPTY" /\ before # "EMPTY")
                   => last'.ep = ep
                        /\ last'.op \in {"create_episode_group", "save_step"}
             /\ (after = "ESTABLISHED" /\ before # "ESTABLISHED")
                   => SavedOk(ep)
             /\ (before = "ESTABLISHED" /\ after # "ESTABLISHED")
                   => last'.op = "create_episode_group" /\ last'.ep = ep
             /\ after = "UNCREATED" => before = "UNCREATED"]_vars

(***************************************************************************)
(* Vocabulary of the planner properties.                                   *)
(***************************************************************************)
\* a plan_grasp call has returned a trajectory
Planned == pc = "done" /\ result.outcome = "ok"

\* the configuration at index i of the returned trajectory, counted from 0
At(i) == result.trajectory[i + 1]

\* the last two (gripper) channels of configuration q
Gripper(q) == <<q[Len(q) - 1], q[Len(q)]>>

\* the robot offers get_q and inverse_kinematics, and inverse kinematics
\* returned a configuration of the robot's dimension for all three keyframes
Resolvable ==
    /\ pc = "done"
    /\ robot.has_get_q /\ robot.has_ik
    /\ Len(ik_log) = 3
    /\ \A k \in 1..3 : ~ik_log[k].raised /\ Len(keyframes[k]) = Len(home_q)

\* x and y differ by less than four units in the last place of y
Near(x, y) ==
    LET d == FSub(x, y)
    IN  d.m = 0 \/ Bits(Abs(d.m)) + d.e <= y.e + 2

(***************************************************************************)
(* C16 .. C20                                                              *)
(***************************************************************************)
\* C16: when the robot's current configuration and the three inverse
\* kinematics calls succeed, plan_grasp returns 170 configurations, each of
\* the robot's dimension: segments of 50, 50, 20 and 50 configurations that
\* start at the current configuration and end at the pre-grasp, the grasp,
\* the closed grasp and the lift configuration.
C16_Length170 ==
    Resolvable =>
       /\ result.outcome = "ok"
       /\ Len(result.trajectory) = 170
       /\ \A i \in 0..169 : Len(At(i)) = Len(home_q)
       /\ At(0) = home_q
       /\ \A c \in 1..(Len(home_q) - 2) :
             /\ At(49)[c] = keyframes[1][c]
             /\ At(99)[c] = keyframes[2][c]
             /\ At(119)[c] = keyframes[2][c]
             /\ At(169)[c] = keyframes[3][c]

\* a call on the nine-joint robot of the tests with three different answers
C16_Witness ==
    /\ Resolvable /\ result.outcome = "ok"
    /\ Len(home_q) = 9
    /\ keyframes[1] # keyframes[2] /\ keyframes[2] # keyframes[3]

\* the robot has nine joints and inverse kinematics returned one fixed
\* configuration for the three keyframes
FixedIK ==
    /\ Resolvable
    /\ Len(home_q) = 9
    /\ keyframes[1] = keyframes[2] /\ keyframes[2] = keyframes[3]

C18_BoundariesDuplicated ==
    Planned =>
       /\ At(49) = At(50)
       /\ At(99) = At(100)
       /\ At(119) = At(120)

\* a trajectory through three different keyframes, moving before and after
\* each boundary
C18_Witness ==
    /\ Planned /\ Resolvable
    /\ At(48) # At(49) /\ At(50) # At(51)
    /\ At(98) # At(99) /\ At(100) # At(101)
    /\ At(118) # At(119) /\ At(120) # At(121)

\* C19: once inverse_kinematics has raised for a keyframe, the call is over
\* with RuntimeError and without a trajectory, and no further keyframe is
\* resolved.
C19_IKFailureAborts ==
    \A k \in DOMAIN ik_log :
        ik_log[k].raised =>
           /\ pc = "done"
           /\ result.outcome = "RuntimeError"
           /\ "trajectory" \notin DOMAIN result
           /\ k = Len(ik_log)
           /\ Len(keyframes) = k - 1

\* inverse kinematics raised for the third keyframe after resolving two
C19_Witness ==
    /\ Len(ik_log) = 3 /\ ik_log[3].raised
    /\ Len(keyframes) = 2
    /\ pc = "done"

\* C20: a plan_grasp on a robot without inverse_kinematics ends with
\* RuntimeError, without a trajectory and without a keyframe configuration
\* made up by the planner.
C20_NoIKFails ==
    (pc # "idle" /\ ~robot.has_ik) =>
       /\ keyframes = << >>
       /\ pc = "done" =>
             /\ result.outcome = "RuntimeError"
             /\ "trajectory" \notin DOMAIN result

(***************************************************************************)
(* C21 .. C24                                                              *)
(***************************************************************************)
\* C21: a second plan_grasp on the same planner, robot and target in which
\* the robot gives the same answers as in the first ends as the first did:
\* with the same outcome and the same trajectory.
C21_Deterministic ==
    (pc = "done" /\ prev # None /\ prev.ik_log = ik_log)
       => result = prev.result

\* the value x * 2^24 of a float x of magnitude at most 1, an integer
Scaled(x) == IF x.m = 0 THEN 0 ELSE x.m * Pow2(x.e + 24)

\* the last place of the larger of x and y, on the scale of Scaled
LastPlace(x, y) ==
    IF x.m = 0 /\ y.m = 0 THEN 0
    ELSE IF x.m = 0 THEN Pow2(y.e + 24)
    ELSE IF y.m = 0 THEN Pow2(x.e + 24)
    ELSE Pow2((IF x.e >= y.e THEN x.e ELSE y.e) + 24)

\* interpolate was called with configurations of one length
EqualLengths ==
    /\ icall # None
    /\ Len(icall.start_q) = Len(icall.end_q)

\* C22: for start and end of one length and steps = N > 1, interpolate
\* returns N configurations of that length; the first is start and the last
\* is end, exactly, and element i is (1 - i/(N-1)) * start + (i/(N-1)) * end
\* in every component up to the rounding of the floating-point operations
\* (four units in the last place of the larger of start and end).
C22_AffineCombination ==
    (EqualLengths /\ icall.steps > 1) =>
       LET N == icall.steps
           r == icall.result
       IN  /\ r # ValueError
           /\ Len(r) = N
           /\ r[1] = icall.start_q
           /\ r[N] = icall.end_q
           /\ \A i \in 0..(N - 1) :
                 /\ Len(r[i + 1]) = Len(icall.start_q)
                 /\ \A c \in 1..Len(icall.start_q) :
                       LET s == icall.start_q[c]
                           e == icall.end_q[c]
                           exact == (N - 1 - i) * Scaled(s) + i * Scaled(e)
                       IN  Abs((N - 1) * Scaled(r[i + 1][c]) - exact)
                              <= (N - 1) * 4 * LastPlace(s, e)

\* fifty steps between two different configurations of three joints
C22_Witness ==
    /\ EqualLengths
    /\ icall.steps = 50
    /\ Len(icall.start_q) = 3
    /\ \A c \in 1..3 : icall.start_q[c] # icall.end_q[c]
    /\ icall.result[2] # icall.start_q
    /\ icall.result[49] # icall.end_q

\* C23: for start and end of one length and steps = 1, interpolate returns
\* the list of the single configuration start.
C23_SingleStep ==
    (EqualLengths /\ icall.steps = 1) =>
       icall.result = <<icall.start_q>>

\* one step between two different configurations of three joints
C23_Witness ==
    /\ EqualLengths
    /\ icall.steps = 1
    /\ Len(icall.start_q) = 3
    /\ icall.start_q # icall.end_q
    /\ Len(icall.result) = 1

\* C24: interpolate called with start and end of different lengths raises
\* and returns no trajectory.
C24_MismatchRaises ==
    (icall # None /\ Len(icall.start_q) # Len(icall.end_q))
       => icall.result = ValueError

(***************************************************************************)
(* C28 .. C30                                                              *)
(***************************************************************************)
\* the configuration at index i is q with its last two channels set to g
Endpoint(i, q, g) ==
    /\ Len(At(i)) = Len(q)
    /\ \A c \in 1..Len(q) : At(i)[c] = IF c > Len(q) - 2 THEN g ELSE q[c]

\* C28: in a returned trajectory, index 0 is the robot's current
\* configuration, index 49 the answer of inverse kinematics for pre-grasp
\* with its last two channels open, index 99 the answer for grasp with them
\* open, index 119 the answer for grasp with them closed and index 169 the
\* answer for lift with them closed; the other channels are the answers'.
C28_Endpoints ==
    (Resolvable /\ Planned /\ Len(home_q) >= 2) =>
       /\ At(0) = robot.q
       /\ Endpoint(49, ik_log[1].answer, open_val)
       /\ Endpoint(99, ik_log[2].answer, open_val)
       /\ Endpoint(119, ik_log[2].answer, closed_val)
       /\ Endpoint(169, ik_log[3].answer, closed_val)

\* nine joints standing at the open value and three answers that differ in
\* their arm joints and have neither gripper value
C28_Witness ==
    /\ Resolvable /\ Planned
    /\ home_q = [c \in 1..9 |-> open_val]
    /\ ik_log[1].answer # ik_log[2].answer
    /\ ik_log[2].answer # ik_log[3].answer
    /\ \A k \in 1..3 : Gripper(ik_log[k].answer)[1] \notin {open_val, closed_val}

Raised(pos) ==
    /\ pos[1] = target[1]
    /\ pos[2] = target[2]
    /\ pos[3] = FAdd(target[3], FDiv(1, 10))

\* C30: a plan_grasp that returned a trajectory has read the robot's
\* current configuration and has called inverse_kinematics exactly three
\* times: for the target raised by the offset, for the target and for the
\* target raised by the offset again, each time with the orientation
\* [0, 1, 0, 0].
C30_ThreeIKCalls ==
    Planned =>
       /\ robot.has_get_q /\ home_q = robot.q
       /\ Len(ik_log) = 3
       /\ Raised(ik_log[1].pos)
       /\ ik_log[2].pos = target
       /\ ik_log[3].pos = ik_log[1].pos
       /\ \A k \in 1..3 : ik_log[k].quat = <<0, 1, 0, 0>>

(***************************************************************************)
(* C25.  The task generator's reset.                                       *)
(***************************************************************************)
\* a reset_task that spawned a task
Spawned == ret # None /\ ret.call = "reset_task" /\ ret.raised = "no"

\* C25: reset_task(scene) returns the pair (instruction, target object
\* entity) of the task it just spawned: a non-empty instruction and the
\* entity that scene.add_entity returned, the one the scene now holds last.
C25_ResetReturnsTask ==
    Spawned =>
       /\ ret.value = Pair(gen.instruction, gen.target_object_entity)
       /\ gen.instruction # << >>
       /\ gen.target_object_entity = scene.entities[Len(scene.entities)]

(***************************************************************************)
(* C26, C27.  The generation loop.                                         *)
(***************************************************************************)
\* the episode the calls in calls belong to
CallsEpisode == IF mpc = "execute" THEN cur_ep ELSE cur_ep - 1

\* the episode of calls reached its execution loop: plan_grasp returned a
\* trajectory
Executed ==
    /\ mpc \in {"execute", "loop", "raised"}
    /\ Len(calls) >= 4
    /\ calls[4].call = "plan_grasp"
    /\ mpc = "execute" \/ Len(calls) > 4

\* the episode of calls was ended by an exception
Aborted ==
    /\ mpc \in {"loop", "raised"}
    /\ printed.message \in {"failed (RuntimeError)", "failed (Unexpected)"}

\* the episode of calls ran to the end of its execution loop
Generated ==
    /\ mpc \in {"loop", "raised"}
    /\ printed.message = "generated"

\* number of calls of the given name in calls
Count(name) == Cardinality({ j \in DOMAIN calls : calls[j].call = name })

\* positions in calls of the calls of the given name
Where(name) == { j \in DOMAIN calls : calls[j].call = name }

\* the calls of the first n iterations of the execution loop
Ideal(n) ==
    LET w == IF control = "none" THEN 3 ELSE 4
    IN  [j \in 1..(n * w) |->
            Iteration(control, CallsEpisode, rgb,
                      actions_trajectory[((j - 1) \div w) + 1],
                      text_instr)[((j - 1) % w) + 1]]

\* the calls made after create_episode_group
Execution == SubSeq(calls, 6, Len(calls))

C32_StateNeverLonger ==
    \A e \in DOMAIN file : \A n \in Mandatory :
        StreamLen(file, e, "state") <= StreamLen(file, e, n)

\* an episode whose state stream lags behind two observations, and one
\* whose state stream caught up with them
C32_Witness ==
    /\ \E e \in DOMAIN file :
          /\ StreamLen(file, e, "observation") = 2
          /\ StreamLen(file, e, "state") = 1
    /\ \E e \in DOMAIN file :
          /\ StreamLen(file, e, "observation") >= 1
          /\ StreamLen(file, e, "state") = StreamLen(file, e, "observation")

\* C36: close() succeeds whatever the episodes hold (none created, created
\* and empty, or holding steps), and after a close that succeeded no
\* create_episode_group and no save_step changes a stored episode.
C36_ClosedTerminal ==
    [][/\ last'.op = "close" => last'.outcome = "ok"
       /\ (last.op = "close" /\ last.outcome = "ok") => file' = file]_vars

(***************************************************************************)
(* C31, C33, C37.  The generation loop and the failures of an episode.     *)
(***************************************************************************)
\* the step of the loop in which plan_grasp raises
PlanFails ==
    /\ mpc = "loop" /\ mpc' = "loop"
    /\ printed'.message = "failed (RuntimeError)"
    /\ \E j \in DOMAIN calls' : calls'[j].call = "plan_grasp"

C33_ClosedAtEnd ==
    (mpc \notin {"start", "returned", "loop", "execute"}) =>
       /\ mpc = "finished"
       /\ last.op = "close" /\ last.outcome = "ok"

\* the step of the loop in which a call of the execution loop raises
StepFails ==
    /\ mpc = "execute" /\ mpc' = "loop"
    /\ printed'.message \in {"failed (RuntimeError)", "failed (Unexpected)"}

\* C37: when control, scene.step, scene.render or save_step fails at step
\* k of episode ep, the steps already saved for ep stay in the store as
\* episode ep (its rows and attributes are kept, the group is not
\* deleted), the loop continues with episode ep + 1, and no later episode
\* of the run changes an earlier one.
C37_FailedStepKeepsEpisode ==
    [][/\ StepFails =>
             /\ cur_ep' = cur_ep + 1
             /\ cur_ep \in DOMAIN file'
             /\ file'[cur_ep].attrs = file[cur_ep].attrs
             /\ \A n \in Mandatory :
                   LET old == file[cur_ep].dsets[n].rows
                       new == file'[cur_ep].dsets[n].rows
                   IN  /\ Len(new) >= Len(old)
                       /\ SubSeq(new, 1, Len(old)) = old
       /\ mpc \in {"loop", "execute"} =>
             \A e \in DOMAIN file :
                 e < cur_ep => e \in DOMAIN file' /\ file'[e] = file[e]]_vars

\* an episode ended by an exception after a step of it was saved
C37_Witness ==
    /\ mpc = "loop" /\ Executed /\ Aborted
    /\ StreamLen(file, cur_ep - 1, "action") >= 1
    /\ StreamLen(file, cur_ep - 1, "action") < Len(actions_trajectory)

(***************************************************************************)
(* C34.  The task generator: the previous object.                          *)
(***************************************************************************)
\* C34: a reset_task made while a previous target entity exists removes
\* that entity from the scene before it adds the new one, so that after any
\* sequence of reset_task calls the scene holds at most one task object and
\* target_object_entity is the most recently added one.
C34_OneTaskObject ==
    gen # None =>
       /\ Len(scene.entities) <= 1
       /\ gen.target_object_entity # None =>
             /\ scene.entities # << >>
             /\ gen.target_object_entity
                   = scene.entities[Len(scene.entities)]

=============================================================================
